---- MODULE Spec2Model ----
(***************************************************************************)
(* Settlement ledger of the restaurant payment platform: idempotent event  *)
(* ingestion, the derived ledger and its balances, the payout generator    *)
(* and the payout life cycle, over a PostgreSQL database read and written  *)
(* by concurrent READ COMMITTED transactions.                              *)
(*                                                                         *)
(* Time is counted in days: one tick of `now` is one day, so CURRENT_DATE  *)
(* is `now` itself and MATURITY_DAYS is 7 ticks.  A nullable column holds  *)
(* NULL (the empty tuple) or Some(v) (the one-element tuple).              *)
(*                                                                         *)
(* Every statement the code awaits is one step of a transaction (Advance); *)
(* SpecConc interleaves the steps of several transactions, Spec runs each  *)
(* handler's transaction from its first statement to its commit or         *)
(* rollback in one action (RunToEnd), with the same step definitions.      *)
(* The Prometheus counters and the balance_total gauge are not modelled.   *)
(***************************************************************************)
EXTENDS Integers, Sequences, FiniteSets, Bags, TLC

VARIABLES
    restaurants,  \* table restaurants: set of rows [id, is_active]
    events,       \* table processor_events: bag of rows (a row without its id)
    ledger,       \* table ledger_entries: bag of rows
    payouts,      \* table payouts: function from the ids of the rows to the rows
    items,        \* table payout_items: bag of rows
    payout_seq,   \* last value of the identity sequence of payouts.id
    now,          \* the database clock, in days
    tx,           \* the open transactions: handler, position, locals, writes, locks
    acks          \* per event_id, how many requests were answered 201

vars == <<restaurants, events, ledger, payouts, items, payout_seq, now, tx, acks>>

NULL == <<>>
Some(v) == <<v>>
Val(o) == o[1]

-----------------------------------------------------------------------------
(* Program constants and enumerations *)

MATURITY_DAYS == 7
MIN_PAYOUT_AMOUNT == 10000

EventType == {"charge_succeeded", "refund_succeeded", "payout_paid"}
EntryType == {"sale", "commission", "refund", "payout_reserve"}
PayoutStatus == {"created", "processing", "paid", "failed"}

HTTP_201_CREATED == 201
HTTP_200_OK == 200
HTTP_409_CONFLICT == 409
HTTP_202_ACCEPTED == 202

-----------------------------------------------------------------------------
(* Bounds of the model *)

MaxNow == 1
MaxPayoutId == 3

RestaurantIds == {"res_a", "res_b"}
Currencies == {"PEN", "USD"}
\* The accounts (restaurant_id, currency) the requests name.
Accounts == {<<"res_a", "PEN">>, <<"res_b", "PEN">>, <<"res_b", "USD">>}
EventIds == {"e1", "e2"}
\* With the event of the second restaurant in the interleaved specification.
AllEventIds == EventIds \cup {"e0"}
Txs == {"t1", "t2"}
Amounts == {0, 5000}
Fees == {0, 1}
OccurredAts == {0 - MATURITY_DAYS, 1 - MATURITY_DAYS}
MinAmounts == {5000}
AsOfs == {1}
PayoutIds == 1 .. MaxPayoutId

\* The request bodies ProcessorEventCreate accepts (amount_cents >= 0,
\* fee_cents >= 0), metadata reduced to its payout_id.
Body(event_id, event_type, occurred_at, account, amount_cents, fee_cents, payout_id) ==
    [event_id |-> event_id, event_type |-> event_type, occurred_at |-> occurred_at,
     restaurant_id |-> account[1], currency |-> account[2],
     amount_cents |-> amount_cents, fee_cents |-> fee_cents, payout_id |-> payout_id]
Charges ==
    {Body(i, "charge_succeeded", o, a, m, f, NULL) :
        i \in EventIds, o \in OccurredAts, a \in Accounts, m \in Amounts, f \in Fees}
Refunds ==
    {Body(i, "refund_succeeded", 0, a, m, 0, NULL) :
        i \in EventIds, a \in Accounts, m \in Amounts}
PayoutPaids ==
    {Body(i, "payout_paid", 0, <<"res_a", "PEN">>, 0, 0, p) :
        i \in EventIds, p \in {NULL} \cup {Some(q) : q \in PayoutIds}}
ProcessorEventCreate == Charges \cup Refunds \cup PayoutPaids

-----------------------------------------------------------------------------
(* The database as a transaction sees it *)

\* The committed tables.
DB ==
    [restaurants |-> restaurants, events |-> events, ledger |-> ledger,
     payouts |-> payouts, items |-> items]

\* What a transaction has written and not yet committed.
NoWrites ==
    [restaurants |-> {}, events |-> EmptyBag, ledger |-> EmptyBag,
     payouts |-> <<>>, items |-> EmptyBag]

\* READ COMMITTED: a statement sees the committed rows and the transaction's own.
View(D, w) ==
    [restaurants |-> D.restaurants \cup w.restaurants,
     events |-> D.events (+) w.events,
     ledger |-> D.ledger (+) w.ledger,
     payouts |-> w.payouts @@ D.payouts,
     items |-> D.items (+) w.items]

\* A table gains one row.
Insert(B, row) == B (+) SetToBag({row})

\* SUM(amount_cents) over the rows S of table B, each as often as it is stored.
RECURSIVE SumAmounts(_, _)
SumAmounts(B, S) ==
    IF S = {} THEN 0
    ELSE LET e == CHOOSE r \in S : TRUE
         IN  CopiesIn(e, B) * e.amount_cents + SumAmounts(B, S \ {e})

-----------------------------------------------------------------------------
(* LedgerRepository: ledger_entries rows and the balances derived from them *)

\* A variant of IsMatured that leaves out the row maturing now.
IsMaturedStrict(e, clock) == e.available_at = NULL \/ Val(e.available_at) < clock

\* available_at IS NULL OR available_at <= now()
IsMatured(e, clock) == e.available_at = NULL \/ Val(e.available_at) <= clock

\* A variant of IsPending that takes the row maturing now for pending as well.
IsPendingInclusive(e, clock) == e.available_at # NULL /\ Val(e.available_at) >= clock

\* available_at > now(); NULL > now() is not true
IsPending(e, clock) == e.available_at # NULL /\ Val(e.available_at) > clock

OfAccount(e, restaurant_id, currency) ==
    e.restaurant_id = restaurant_id /\ e.currency = currency

\* A variant of create_entry that leaves the currency to the column default.
create_entry_default_currency(w, restaurant_id, amount_cents, currency, entry_type, related_event_id, related_payout_id, available_at) ==
    [w EXCEPT !.ledger = Insert(@,
        [restaurant_id |-> restaurant_id, amount_cents |-> amount_cents,
         currency |-> "PEN", entry_type |-> entry_type,
         related_event_id |-> related_event_id,
         related_payout_id |-> related_payout_id,
         available_at |-> available_at])]

create_entry(w, restaurant_id, amount_cents, currency, entry_type, related_event_id, related_payout_id, available_at) ==
    [w EXCEPT !.ledger = Insert(@,
        [restaurant_id |-> restaurant_id, amount_cents |-> amount_cents,
         currency |-> currency, entry_type |-> entry_type,
         related_event_id |-> related_event_id,
         related_payout_id |-> related_payout_id,
         available_at |-> available_at])]

get_available_balance(V, restaurant_id, currency, clock) ==
    SumAmounts(V.ledger,
        {e \in BagToSet(V.ledger) :
            OfAccount(e, restaurant_id, currency) /\ IsMatured(e, clock)})

get_pending_balance(V, restaurant_id, currency, clock) ==
    SumAmounts(V.ledger,
        {e \in BagToSet(V.ledger) :
            OfAccount(e, restaurant_id, currency) /\ IsPending(e, clock)})

\* SUM(CASE WHEN <matured | pending> THEN amount_cents ELSE 0 END) over rows S.
RECURSIVE SumCase(_, _, _, _)
SumCase(B, S, clock, pending) ==
    IF S = {} THEN 0
    ELSE LET e == CHOOSE r \in S : TRUE
             counted == IF pending THEN IsPending(e, clock) ELSE IsMatured(e, clock)
         IN  CopiesIn(e, B) * (IF counted THEN e.amount_cents ELSE 0)
             + SumCase(B, S \ {e}, clock, pending)

\* The latest created_at, which the rows of the model do not keep.
LATEST == "max_created_at"

\* MAX(CASE WHEN related_event_id IS NOT NULL THEN created_at END) over rows S:
\* NULL when no row of S has a related_event_id.
MaxCase(S) ==
    IF \A e \in S : e.related_event_id = NULL THEN NULL ELSE Some(LATEST)

\* A variant of get_balance_summary whose WHERE leaves out the currency.
get_balance_summary_any_currency(V, restaurant_id, currency, clock) ==
    LET rows == {e \in BagToSet(V.ledger) : e.restaurant_id = restaurant_id}
    IN  [available |-> SumCase(V.ledger, rows, clock, FALSE),
         pending |-> SumCase(V.ledger, rows, clock, TRUE),
         last_event_at |-> MaxCase(rows)]

\* One query, two conditional sums and a conditional maximum over the rows of
\* the account; without GROUP BY it has one row whatever the rows are.
get_balance_summary(V, restaurant_id, currency, clock) ==
    LET rows == {e \in BagToSet(V.ledger) : OfAccount(e, restaurant_id, currency)}
    IN  [available |-> SumCase(V.ledger, rows, clock, FALSE),
         pending |-> SumCase(V.ledger, rows, clock, TRUE),
         last_event_at |-> MaxCase(rows)]

\* BalanceCalculator.get_balance
get_balance(V, restaurant_id, currency, clock) ==
    LET summary == get_balance_summary(V, restaurant_id, currency, clock)
    IN  [restaurant_id |-> restaurant_id, currency |-> currency,
         available_cents |-> summary.available,
         pending_cents |-> summary.pending,
         total_cents |-> summary.available + summary.pending,
         last_event_at |-> summary.last_event_at]

\* The committed rows a SELECT ... FOR UPDATE over the matured rows of the
\* account locks.
MaturedRows(D, restaurant_id, currency, clock) ==
    {e \in BagToSet(D.ledger) :
        OfAccount(e, restaurant_id, currency) /\ IsMatured(e, clock)}

-----------------------------------------------------------------------------
(* LedgerService: the postings of an event or a payout *)

\* A variant of create_sale_entries whose sale is available at once.
create_sale_entries_immediate(w, restaurant_id, event_id, amount_cents, fee_cents, occurred_at, currency) ==
    LET w1 == create_entry(w, restaurant_id, amount_cents, currency, "sale",
                           Some(event_id), NULL, NULL)
    IN  IF fee_cents > 0
        THEN create_entry(w1, restaurant_id, -fee_cents, currency, "commission",
                          Some(event_id), NULL, NULL)
        ELSE w1

\* A variant of create_sale_entries that posts no sale of amount 0.
create_sale_entries_skip_zero(w, restaurant_id, event_id, amount_cents, fee_cents, occurred_at, currency) ==
    LET w1 == IF amount_cents = 0 THEN w
              ELSE create_entry(w, restaurant_id, amount_cents, currency, "sale",
                                Some(event_id), NULL, Some(occurred_at + MATURITY_DAYS))
    IN  IF fee_cents > 0
        THEN create_entry(w1, restaurant_id, -fee_cents, currency, "commission",
                          Some(event_id), NULL, NULL)
        ELSE w1

\* A variant of create_sale_entries that posts the commission as it came.
create_sale_entries_fee_unsigned(w, restaurant_id, event_id, amount_cents, fee_cents, occurred_at, currency) ==
    LET w1 == create_entry(w, restaurant_id, amount_cents, currency, "sale",
                           Some(event_id), NULL, Some(occurred_at + MATURITY_DAYS))
    IN  IF fee_cents > 0
        THEN create_entry(w1, restaurant_id, fee_cents, currency, "commission",
                          Some(event_id), NULL, NULL)
        ELSE w1

\* A variant of create_sale_entries that never posts the commission.
create_sale_entries_no_fee(w, restaurant_id, event_id, amount_cents, fee_cents, occurred_at, currency) ==
    create_entry(w, restaurant_id, amount_cents, currency, "sale",
                 Some(event_id), NULL, Some(occurred_at + MATURITY_DAYS))

create_sale_entries(w, restaurant_id, event_id, amount_cents, fee_cents, occurred_at, currency) ==
    LET available_at == occurred_at + MATURITY_DAYS
        w1 == create_entry(w, restaurant_id, amount_cents, currency, "sale",
                           Some(event_id), NULL, Some(available_at))
    IN  IF fee_cents > 0
        THEN create_entry(w1, restaurant_id, -fee_cents, currency, "commission",
                          Some(event_id), NULL, NULL)
        ELSE w1

\* A variant of create_refund_entry that posts the amount as it came.
create_refund_entry_unsigned(w, restaurant_id, event_id, amount_cents, currency) ==
    create_entry(w, restaurant_id, amount_cents, currency, "refund",
                 Some(event_id), NULL, NULL)

create_refund_entry(w, restaurant_id, event_id, amount_cents, currency) ==
    create_entry(w, restaurant_id, -amount_cents, currency, "refund",
                 Some(event_id), NULL, NULL)

\* A variant of create_payout_entry that posts the amount as it came.
create_payout_entry_unsigned(w, restaurant_id, payout_id, amount_cents, currency) ==
    create_entry(w, restaurant_id, amount_cents, currency, "payout_reserve",
                 NULL, Some(payout_id), NULL)

create_payout_entry(w, restaurant_id, payout_id, amount_cents, currency) ==
    create_entry(w, restaurant_id, -amount_cents, currency, "payout_reserve",
                 NULL, Some(payout_id), NULL)

-----------------------------------------------------------------------------
(* PayoutRepository and the constraints of table payouts *)

\* CHECK paid_at_consistency
paid_at_consistency(p) ==
    (p.status = "paid" /\ p.paid_at # NULL) \/ (p.status # "paid" /\ p.paid_at = NULL)

\* CHECK positive_payout_amount
positive_payout_amount(p) == p.amount_cents > 0

\* UNIQUE uq_payout_restaurant_currency_asof: the rows that hold the key
SameAsOf(P, restaurant_id, currency, as_of) ==
    {id \in DOMAIN P :
        /\ P[id].restaurant_id = restaurant_id
        /\ P[id].currency = currency
        /\ P[id].as_of = as_of}

exists_for_as_of(V, restaurant_id, currency, as_of) ==
    SameAsOf(V.payouts, restaurant_id, currency, as_of) # {}

has_pending_payouts(V, restaurant_id, currency) ==
    \E id \in DOMAIN V.payouts :
        /\ V.payouts[id].restaurant_id = restaurant_id
        /\ V.payouts[id].currency = currency
        /\ V.payouts[id].status \in {"created", "processing"}

\* The row create_payout adds; as_of NULL takes the column default CURRENT_DATE.
NewPayout(restaurant_id, amount_cents, currency, as_of, clock) ==
    [restaurant_id |-> restaurant_id, amount_cents |-> amount_cents,
     currency |-> currency,
     as_of |-> IF as_of = NULL THEN clock ELSE Val(as_of),
     status |-> "created", paid_at |-> NULL, failure_reason |-> NULL]

\* A variant of update_status that never stamps paid_at.
update_status_no_stamp(p, status, failure_reason, clock) ==
    LET p1 == [p EXCEPT !.status = status]
    IN  IF failure_reason # NULL
        THEN [p1 EXCEPT !.failure_reason = failure_reason]
        ELSE p1

\* The row update_status leaves in the session before the flush.
update_status(p, status, failure_reason, clock) ==
    LET p1 == [p EXCEPT !.status = status]
        p2 == IF status = "paid" THEN [p1 EXCEPT !.paid_at = Some(clock)] ELSE p1
    IN  IF failure_reason # NULL
        THEN [p2 EXCEPT !.failure_reason = failure_reason]
        ELSE p2

RECURSIVE create_items(_, _, _)
create_items(w, payout_id, breakdown) ==
    IF breakdown = <<>> THEN w
    ELSE create_items(
            [w EXCEPT !.items = Insert(@,
                [payout_id |-> payout_id, item_type |-> Head(breakdown)[1],
                 amount_cents |-> Head(breakdown)[2]])],
            payout_id, Tail(breakdown))

\* PayoutGenerator._get_breakdown_items
TypeTotal(V, restaurant_id, currency, entry_type, clock) ==
    SumAmounts(V.ledger,
        {e \in BagToSet(V.ledger) :
            /\ OfAccount(e, restaurant_id, currency)
            /\ IsMatured(e, clock)
            /\ e.entry_type = entry_type})

\* A variant of get_breakdown_items that keeps the totals of 0.
get_breakdown_items_with_zero(V, restaurant_id, currency, clock) ==
    LET total(t) == TypeTotal(V, restaurant_id, currency, t, clock)
    IN  <<<<"net_sales", total("sale")>>, <<"fees", total("commission")>>,
          <<"refunds", total("refund")>>>>

get_breakdown_items(V, restaurant_id, currency, clock) ==
    LET total(t) == TypeTotal(V, restaurant_id, currency, t, clock)
        line(name, t) == IF total(t) # 0 THEN <<<<name, total(t)>>>> ELSE <<>>
    IN  line("net_sales", "sale") \o line("fees", "commission")
        \o line("refunds", "refund")

-----------------------------------------------------------------------------
(* Transactions.  A transaction holds the handler it runs (kind), the next *)
(* statement (pc), the handler's arguments and locals, the rows it wrote   *)
(* (w) and the ledger rows it locked.  seq carries payout_seq through a    *)
(* statement that draws from it; clock is the transaction's start time,    *)
(* which is what now() and CURRENT_DATE return until it ends.              *)

Idle ==
    [kind |-> "idle", pc |-> "idle", arg |-> NULL, w |-> NoWrites, locks |-> {},
     is_new |-> FALSE, todo |-> <<>>, balance |-> 0, payout_id |-> 0,
     status |-> "created", failure_reason |-> NULL, count |-> 0, seq |-> 0,
     clock |-> 0, error |-> "none"]

\* What the other open transactions hold uncommitted.
OtherRestaurants(O) == UNION {{r.id : r \in o.w.restaurants} : o \in O}
OtherEventIds(O) == UNION {{e.event_id : e \in BagToSet(o.w.events)} : o \in O}
OtherPayoutRows(O) == UNION {DOMAIN o.w.payouts : o \in O}
OtherPayoutKeys(O) ==
    UNION {{<<o.w.payouts[id].restaurant_id, o.w.payouts[id].currency,
              o.w.payouts[id].as_of>> : id \in DOMAIN o.w.payouts} : o \in O}
OtherLocks(O) == UNION {o.locks : o \in O}

Fail(x, error) == [x EXCEPT !.pc = "failed", !.error = error]

(* ---- RestaurantRepository.get_or_create ---- *)

\* SELECT the restaurant; present: return it.
GetOrCreateSelect(D, x) ==
    LET V == View(D, x.w)
    IN  IF \E r \in V.restaurants : r.id = x.arg.restaurant_id
        THEN [x EXCEPT !.pc = "create_event"]
        ELSE [x EXCEPT !.pc = "insert_restaurant"]

\* A variant of GetOrCreateInsert without the savepoint: the conflict is raised.
GetOrCreateInsertNoSavepoint(D, x) ==
    IF \E r \in D.restaurants : r.id = x.arg.restaurant_id
    THEN Fail(x, "INTEGRITY_ERROR")
    ELSE [x EXCEPT !.pc = "create_event",
                   !.w.restaurants =
                       @ \cup {[id |-> x.arg.restaurant_id, is_active |-> TRUE]}]

\* INSERT in a savepoint; on the primary key conflict the savepoint alone is
\* rolled back and the row is read again.
GetOrCreateInsert(D, x) ==
    IF \E r \in D.restaurants : r.id = x.arg.restaurant_id
    THEN [x EXCEPT !.pc = "create_event"]
    ELSE [x EXCEPT !.pc = "create_event",
                   !.w.restaurants =
                       @ \cup {[id |-> x.arg.restaurant_id, is_active |-> TRUE]}]

(* ---- EventRepository.create_event ---- *)

\* A variant of CreateEventSelect that never finds the event.
CreateEventSelectBlind(D, x) == [x EXCEPT !.pc = "insert_event"]

\* SELECT by event_id; found: (existing_event, False).
CreateEventSelect(D, x) ==
    LET V == View(D, x.w)
    IN  IF \E e \in BagToSet(V.events) : e.event_id = x.arg.event_id
        THEN [x EXCEPT !.pc = "commit", !.is_new = FALSE]
        ELSE [x EXCEPT !.pc = "insert_event"]

\* A variant of CreateEventInsert on a table without the unique index.
CreateEventInsertNoIndex(D, x) ==
    [x EXCEPT !.pc = "dispatch", !.is_new = TRUE, !.w.events = Insert(@, x.arg)]

\* A variant of CreateEventInsert that goes on without the event row.
CreateEventInsertUnstored(D, x) ==
    IF \E e \in BagToSet(D.events) : e.event_id = x.arg.event_id
    THEN Fail(x, "INTEGRITY_ERROR")
    ELSE [x EXCEPT !.pc = "dispatch", !.is_new = TRUE]

\* session.add + flush: the INSERT meets the unique index on event_id; the
\* IntegrityError of a duplicate is not caught.
CreateEventInsert(D, x) ==
    IF \E e \in BagToSet(D.events) : e.event_id = x.arg.event_id
    THEN Fail(x, "INTEGRITY_ERROR")
    ELSE [x EXCEPT !.pc = "dispatch", !.is_new = TRUE,
                   !.w.events = Insert(@, x.arg)]

(* ---- EventProcessor.process_event, the is_new branch ---- *)

\* A variant of Dispatch that raises when the payout named is not found.
DispatchPayoutRequired(D, x, clock) ==
    LET V == View(D, x.w)
        event == x.arg
    IN  CASE event.event_type = "charge_succeeded" ->
                [x EXCEPT !.pc = "commit",
                          !.w = create_sale_entries(@, event.restaurant_id,
                                    event.event_id, event.amount_cents,
                                    event.fee_cents, event.occurred_at,
                                    event.currency)]
          [] event.event_type = "refund_succeeded" ->
                [x EXCEPT !.pc = "commit",
                          !.w = create_refund_entry(@, event.restaurant_id,
                                    event.event_id, event.amount_cents,
                                    event.currency)]
          [] event.event_type = "payout_paid" ->
                \* _process_payout_paid: no payout_id, or no such payout: return
                IF event.payout_id = NULL \/ Val(event.payout_id) = 0
                THEN [x EXCEPT !.pc = "commit"]
                ELSE IF Val(event.payout_id) \notin DOMAIN V.payouts
                THEN Fail(x, "PAYOUT_NOT_FOUND")
                ELSE [x EXCEPT !.pc = "update_status",
                               !.payout_id = Val(event.payout_id),
                               !.status = "paid", !.failure_reason = NULL]

Dispatch(D, x, clock) ==
    LET V == View(D, x.w)
        event == x.arg
    IN  CASE event.event_type = "charge_succeeded" ->
                [x EXCEPT !.pc = "commit",
                          !.w = create_sale_entries(@, event.restaurant_id,
                                    event.event_id, event.amount_cents,
                                    event.fee_cents, event.occurred_at,
                                    event.currency)]
          [] event.event_type = "refund_succeeded" ->
                [x EXCEPT !.pc = "commit",
                          !.w = create_refund_entry(@, event.restaurant_id,
                                    event.event_id, event.amount_cents,
                                    event.currency)]
          [] event.event_type = "payout_paid" ->
                \* _process_payout_paid: no payout_id, or no such payout: return
                IF event.payout_id = NULL \/ Val(event.payout_id) = 0
                THEN [x EXCEPT !.pc = "commit"]
                ELSE IF Val(event.payout_id) \notin DOMAIN V.payouts
                THEN [x EXCEPT !.pc = "commit"]
                ELSE [x EXCEPT !.pc = "update_status",
                               !.payout_id = Val(event.payout_id),
                               !.status = "paid", !.failure_reason = NULL]

(* ---- PayoutRepository.update_status, the flush ---- *)

\* A variant of UpdateStatusFlush on a table without CHECK paid_at_consistency.
UpdateStatusFlushUnchecked(D, x, clock) ==
    LET row == update_status(View(D, x.w).payouts[x.payout_id], x.status,
                             x.failure_reason, clock)
    IN  [x EXCEPT !.pc = "commit", !.w.payouts = (x.payout_id :> row) @@ @]

\* UPDATE payouts SET ... WHERE id = payout_id, checked by the row's constraints.
UpdateStatusFlush(D, x, clock) ==
    LET V == View(D, x.w)
        row == update_status(V.payouts[x.payout_id], x.status,
                             x.failure_reason, clock)
    IN  IF paid_at_consistency(row) /\ row.status \in PayoutStatus
        THEN [x EXCEPT !.pc = "commit",
                       !.w.payouts = (x.payout_id :> row) @@ @]
        ELSE Fail(x, "INTEGRITY_ERROR")

\* A caller of update_status loads the payout first (get_by_id).
UpdateLoad(D, x) ==
    LET V == View(D, x.w)
    IN  IF x.arg.payout_id \in DOMAIN V.payouts
        THEN [x EXCEPT !.pc = "update_status", !.payout_id = x.arg.payout_id,
                       !.status = x.arg.status,
                       !.failure_reason = x.arg.failure_reason]
        ELSE [x EXCEPT !.pc = "commit"]

(* ---- PayoutGenerator ---- *)

\* The restaurant the generator is at, and the parameters of the run.
Current(x) == Head(x.todo)
RunCurrency(x) == x.arg.currency
RunAsOf(x) == IF x.kind = "batch" THEN Some(x.arg.as_of) ELSE NULL

\* `continue`: on to the next restaurant of the batch.
Continue(x) == [x EXCEPT !.pc = "has_pending", !.todo = Tail(@)]

\* generate_payouts_batch: the loop head and has_pending_payouts.
BatchHasPending(D, x) ==
    LET V == View(D, x.w)
    IN  IF x.todo = <<>> THEN [x EXCEPT !.pc = "commit"]
        ELSE IF has_pending_payouts(V, Current(x), RunCurrency(x))
        THEN Continue(x)
        ELSE [x EXCEPT !.pc = "exists_for_as_of"]

\* A variant of BatchExistsForAsOf that never skips a restaurant.
BatchExistsForAsOfBlind(D, x) == [x EXCEPT !.pc = "lock_balance"]

\* generate_payouts_batch: exists_for_as_of.
BatchExistsForAsOf(D, x) ==
    LET V == View(D, x.w)
    IN  IF exists_for_as_of(V, Current(x), RunCurrency(x), x.arg.as_of)
        THEN Continue(x)
        ELSE [x EXCEPT !.pc = "lock_balance"]

\* A variant of get_available_balance_with_lock that sums without locking.
get_available_balance_without_lock(D, x, clock) ==
    [x EXCEPT !.balance = get_available_balance(View(D, x.w), Current(x),
                                                RunCurrency(x), clock)]

\* LedgerRepository.get_available_balance_with_lock: the matured rows of the
\* account are locked FOR UPDATE and their amounts summed.
get_available_balance_with_lock(D, x, clock) ==
    [x EXCEPT !.balance = get_available_balance(View(D, x.w), Current(x),
                                                RunCurrency(x), clock),
              !.locks = @ \cup MaturedRows(D, Current(x), RunCurrency(x), clock)]

\* A variant of BatchLockBalance that skips a balance equal to min_amount.
BatchLockBalanceAbove(D, x, clock) ==
    LET y == get_available_balance_with_lock(D, x, clock)
    IN  IF y.balance <= x.arg.min_amount
        THEN Continue([y EXCEPT !.balance = 0])
        ELSE [y EXCEPT !.pc = "create_payout"]

\* generate_payouts_batch: the balance under the lock against min_amount.
BatchLockBalance(D, x, clock) ==
    LET y == get_available_balance_with_lock(D, x, clock)
    IN  IF y.balance < x.arg.min_amount
        THEN Continue([y EXCEPT !.balance = 0])
        ELSE [y EXCEPT !.pc = "create_payout"]

\* A variant of SingleHasPending that goes to the balance unchecked.
SingleHasPendingSkipped(D, x) == [x EXCEPT !.pc = "single_lock_balance"]

\* generate_payout: has_pending_payouts, or PendingPayoutException.
SingleHasPending(D, x) ==
    LET V == View(D, x.w)
    IN  IF has_pending_payouts(V, Current(x), RunCurrency(x))
        THEN Fail(x, "PAYOUT_ALREADY_PENDING")
        ELSE [x EXCEPT !.pc = "single_lock_balance"]

\* A variant of SingleLockBalance that takes any balance.
SingleLockBalanceUnchecked(D, x, clock) ==
    [get_available_balance_with_lock(D, x, clock) EXCEPT !.pc = "create_payout"]

\* generate_payout: the balance under the lock against MIN_PAYOUT_AMOUNT, or
\* InsufficientBalanceException(restaurant_id, available, required).
SingleLockBalance(D, x, clock) ==
    LET y == get_available_balance_with_lock(D, x, clock)
    IN  IF y.balance < MIN_PAYOUT_AMOUNT
        THEN Fail(y, "PAYOUT_INSUFFICIENT_BALANCE")
        ELSE [y EXCEPT !.pc = "create_payout"]

\* A variant of create_payout on a table without the unique constraint.
create_payout_no_unique(D, x, clock) ==
    LET id == x.seq + 1
        row == NewPayout(Current(x), x.balance, RunCurrency(x), RunAsOf(x), clock)
    IN  IF ~positive_payout_amount(row)
        THEN [Fail(x, "INTEGRITY_ERROR") EXCEPT !.seq = id]
        ELSE [x EXCEPT !.pc = "create_items", !.seq = id, !.payout_id = id,
                       !.w.payouts = (id :> row) @@ @]

\* PayoutRepository.create_payout: the INSERT draws the next id and meets the
\* unique constraint on (restaurant_id, currency, as_of) and the amount check.
create_payout(D, x, clock) ==
    LET V == View(D, x.w)
        id == x.seq + 1
        row == NewPayout(Current(x), x.balance, RunCurrency(x), RunAsOf(x), clock)
    IN  IF exists_for_as_of(V, row.restaurant_id, row.currency, row.as_of)
           \/ ~positive_payout_amount(row)
        THEN [Fail(x, "INTEGRITY_ERROR") EXCEPT !.seq = id]
        ELSE [x EXCEPT !.pc = "create_items", !.seq = id, !.payout_id = id,
                       !.w.payouts = (id :> row) @@ @]

\* _get_breakdown_items, create_items and create_payout_entry of the payout.
CreateItemsAndReserve(D, x, clock) ==
    LET V == View(D, x.w)
        breakdown == get_breakdown_items(V, Current(x), RunCurrency(x), clock)
        w1 == create_items(x.w, x.payout_id, breakdown)
        w2 == create_payout_entry(w1, Current(x), x.payout_id, x.balance,
                                  RunCurrency(x))
        y == [x EXCEPT !.w = w2, !.count = @ + 1, !.balance = 0]
    IN  IF x.kind = "batch" THEN Continue([y EXCEPT !.payout_id = 0])
        ELSE [y EXCEPT !.pc = "commit"]

(* ---- One statement of a transaction ---- *)

\* The statement waits: for a row another open transaction inserted under the
\* same unique key, updated, or locked.
Blocked(D, x, O) ==
    CASE x.pc = "insert_restaurant" ->
            x.arg.restaurant_id \in OtherRestaurants(O)
      [] x.pc = "insert_event" -> x.arg.event_id \in OtherEventIds(O)
      [] x.pc = "update_status" -> x.payout_id \in OtherPayoutRows(O)
      [] x.pc \in {"lock_balance", "single_lock_balance"} ->
            MaturedRows(D, Current(x), RunCurrency(x), x.clock) \cap OtherLocks(O) # {}
      [] x.pc = "create_payout" ->
            LET row == NewPayout(Current(x), x.balance, RunCurrency(x),
                                 RunAsOf(x), x.clock)
            IN  <<row.restaurant_id, row.currency, row.as_of>> \in OtherPayoutKeys(O)
      [] OTHER -> FALSE

\* The model's cap on the identity sequence.
Capped(x) == x.pc = "create_payout" /\ x.seq >= MaxPayoutId

Advance(D, x) ==
    CASE x.pc = "get_or_create" -> GetOrCreateSelect(D, x)
      [] x.pc = "insert_restaurant" -> GetOrCreateInsert(D, x)
      [] x.pc = "create_event" -> CreateEventSelect(D, x)
      [] x.pc = "insert_event" -> CreateEventInsert(D, x)
      [] x.pc = "dispatch" -> Dispatch(D, x, x.clock)
      [] x.pc = "update_load" -> UpdateLoad(D, x)
      [] x.pc = "update_status" -> UpdateStatusFlush(D, x, x.clock)
      [] x.pc = "has_pending" -> BatchHasPending(D, x)
      [] x.pc = "exists_for_as_of" -> BatchExistsForAsOf(D, x)
      [] x.pc = "lock_balance" -> BatchLockBalance(D, x, x.clock)
      [] x.pc = "single_has_pending" -> SingleHasPending(D, x)
      [] x.pc = "single_lock_balance" -> SingleLockBalance(D, x, x.clock)
      [] x.pc = "create_payout" -> create_payout(D, x, x.clock)
      [] x.pc = "create_items" -> CreateItemsAndReserve(D, x, x.clock)

Ended(x) == x.pc \in {"commit", "failed"}

\* The handler alone on the database: its statements one after the other.
RECURSIVE RunToEnd(_, _)
RunToEnd(D, x) ==
    IF Ended(x) THEN x
    ELSE IF Capped(x) THEN [x EXCEPT !.pc = "capped"]
    ELSE RunToEnd(D, Advance(D, x))

(* ---- The handlers' first statements ---- *)

\* api/v1/processor.py process_event: session.begin(), EventProcessor.process_event
process_event(event_data, seq, clock) ==
    [Idle EXCEPT !.kind = "process_event", !.pc = "get_or_create",
                 !.arg = event_data, !.seq = seq, !.clock = clock]

\* api/v1/payouts.py process_batch_payouts: session.begin(), generate_payouts_batch
\* with the active restaurants in the order the query returned them.
generate_payouts_batch(payout_data, restaurant_ids, seq, clock) ==
    [Idle EXCEPT !.kind = "batch", !.pc = "has_pending", !.arg = payout_data,
                 !.todo = restaurant_ids, !.seq = seq, !.clock = clock]

generate_payout(payout_data, seq, clock) ==
    [Idle EXCEPT !.kind = "single", !.pc = "single_has_pending",
                 !.arg = payout_data, !.todo = <<payout_data.restaurant_id>>,
                 !.seq = seq, !.clock = clock]

update_status_call(call, seq, clock) ==
    [Idle EXCEPT !.kind = "update", !.pc = "update_load", !.arg = call, !.seq = seq,
                 !.clock = clock]

\* A variant of list_active_restaurant_ids that lists every restaurant.
list_all_restaurant_ids(D) ==
    LET ids == {r.id : r \in D.restaurants}
    IN  {s \in [1 .. Cardinality(ids) -> ids] :
            \A i, j \in DOMAIN s : i # j => s[i] # s[j]}

\* RestaurantRepository.list_active_restaurant_ids, in any order.
list_active_restaurant_ids(D) ==
    LET ids == {r.id : r \in {q \in D.restaurants : q.is_active}}
    IN  {s \in [1 .. Cardinality(ids) -> ids] :
            \A i, j \in DOMAIN s : i # j => s[i] # s[j]}

-----------------------------------------------------------------------------
(* The end of a transaction and what the caller is told *)

PayoutRunRequest == [currency : Currencies, as_of : AsOfs, min_amount : MinAmounts]
PayoutCreate == {[restaurant_id |-> a[1], currency |-> a[2]] : a \in Accounts}
\* The calls of update_status: any status, a failure_reason only with failed.
UpdateStatusCalls ==
    [payout_id : PayoutIds, status : PayoutStatus, failure_reason : {NULL}]
    \cup [payout_id : PayoutIds, status : {"failed"},
          failure_reason : {Some("bank_error")}]

\* process_event answers 201 for a new event and 200 for an idempotent hit; an
\* IntegrityError and the generator's BusinessExceptions are answered 409.
\* run_payouts has answered 202 before the batch starts.
StatusCode(x) ==
    CASE x.kind = "batch" -> HTTP_202_ACCEPTED
      [] x.pc = "failed" -> HTTP_409_CONFLICT
      [] x.kind = "process_event" ->
            IF x.is_new THEN HTTP_201_CREATED ELSE HTTP_200_OK
      [] OTHER -> 0

\* A variant of Commit whose ledger is rewritten with the transaction's entries.
CommitRewritingLedger(D, x) ==
    IF x.pc = "commit" /\ x.w.ledger # EmptyBag
    THEN [View(D, x.w) EXCEPT !.ledger = x.w.ledger]
    ELSE IF x.pc = "commit" THEN View(D, x.w) ELSE D

\* A variant of Commit that keeps the rows of a failed transaction.
CommitWithoutRollback(D, x) == View(D, x.w)

\* COMMIT publishes the transaction's rows; ROLLBACK drops them.
Commit(D, x) == IF x.pc = "commit" THEN View(D, x.w) ELSE D

Finish(x) ==
    LET D == Commit(DB, x)
    IN  /\ restaurants' = D.restaurants
        /\ events' = D.events
        /\ ledger' = D.ledger
        /\ payouts' = D.payouts
        /\ items' = D.items
        /\ acks' = IF x.kind = "process_event" /\ x.pc = "commit" /\ x.is_new
                   THEN [acks EXCEPT ![x.arg.event_id] = @ + 1]
                   ELSE acks

Init ==
    /\ restaurants = {}
    /\ events = EmptyBag
    /\ ledger = EmptyBag
    /\ payouts = <<>>
    /\ items = EmptyBag
    /\ payout_seq = 0
    /\ now = 0
    /\ tx = [t \in Txs |-> Idle]
    /\ acks = [e \in AllEventIds |-> 0]

\* The clock moves on by a day.
Tick ==
    /\ now < MaxNow
    /\ now' = now + 1
    /\ UNCHANGED <<restaurants, events, ledger, payouts, items, payout_seq, tx,
                   acks>>

-----------------------------------------------------------------------------
(* Spec: the handlers one at a time, each a whole transaction *)

Serve(x) ==
    LET y == RunToEnd(DB, x)
    IN  /\ y.pc # "capped"
        /\ Finish(y)
        /\ payout_seq' = y.seq
        /\ UNCHANGED <<now, tx>>

ProcessEvent(event_data) == Serve(process_event(event_data, payout_seq, now))

RunPayouts(payout_data) ==
    \E restaurant_ids \in list_active_restaurant_ids(DB) :
        Serve(generate_payouts_batch(payout_data, restaurant_ids, payout_seq, now))

GeneratePayout(payout_data) == Serve(generate_payout(payout_data, payout_seq, now))

UpdateStatus(call) == Serve(update_status_call(call, payout_seq, now))

Next ==
    \/ \E event_data \in ProcessorEventCreate : ProcessEvent(event_data)
    \/ \E payout_data \in PayoutRunRequest : RunPayouts(payout_data)
    \/ \E payout_data \in PayoutCreate : GeneratePayout(payout_data)
    \/ \E call \in UpdateStatusCalls : UpdateStatus(call)
    \/ Tick

Spec == Init /\ [][Next]_vars

-----------------------------------------------------------------------------
(* SpecConc: the handlers' transactions interleaved statement by statement *)

\* The requests in flight together: two charges of one account, a request that
\* reuses the first event_id with another body, a charge of a second
\* restaurant, a batch run and a single payout.
ConcEvents ==
    {Body("e1", "charge_succeeded", 0 - MATURITY_DAYS, <<"res_a", "PEN">>, 5001, 1, NULL),
     Body("e2", "charge_succeeded", 0 - MATURITY_DAYS, <<"res_a", "PEN">>, 5000, 0, NULL),
     Body("e1", "refund_succeeded", 0, <<"res_a", "PEN">>, 5000, 0, NULL),
     Body("e0", "charge_succeeded", 0 - MATURITY_DAYS, <<"res_b", "PEN">>, 5000, 0, NULL)}
ConcRuns == {[currency |-> "PEN", as_of |-> 1, min_amount |-> 5000]}
ConcCreates == {[restaurant_id |-> "res_a", currency |-> "PEN"]}

Others(t) == {tx[u] : u \in Txs \ {t}}

Begin(t, x) ==
    /\ tx[t] = Idle
    /\ tx' = [tx EXCEPT ![t] = x]
    /\ UNCHANGED <<restaurants, events, ledger, payouts, items, payout_seq, now, acks>>

BeginProcessEvent(t, event_data) == Begin(t, process_event(event_data, 0, now))

BeginRunPayouts(t, payout_data) ==
    \E restaurant_ids \in list_active_restaurant_ids(DB) :
        Begin(t, generate_payouts_batch(payout_data, restaurant_ids, 0, now))

BeginGeneratePayout(t, payout_data) == Begin(t, generate_payout(payout_data, 0, now))

\* The next statement of transaction t, unless it waits for another transaction.
Step(t) ==
    LET x == [tx[t] EXCEPT !.seq = payout_seq]
        y == Advance(DB, x)
    IN  /\ x.kind # "idle"
        /\ ~Ended(x)
        /\ ~Blocked(DB, x, Others(t))
        /\ ~Capped(x)
        /\ tx' = [tx EXCEPT ![t] = [y EXCEPT !.seq = 0]]
        /\ payout_seq' = y.seq
        /\ UNCHANGED <<restaurants, events, ledger, payouts, items, now, acks>>

\* COMMIT or ROLLBACK of transaction t, and the response.
End(t) ==
    /\ Ended(tx[t])
    /\ Finish(tx[t])
    /\ tx' = [tx EXCEPT ![t] = Idle]
    /\ UNCHANGED <<payout_seq, now>>

NextConc ==
    \/ \E t \in Txs, event_data \in ConcEvents : BeginProcessEvent(t, event_data)
    \/ \E t \in Txs, payout_data \in ConcRuns : BeginRunPayouts(t, payout_data)
    \/ \E t \in Txs, payout_data \in ConcCreates : BeginGeneratePayout(t, payout_data)
    \/ \E t \in Txs : Step(t)
    \/ \E t \in Txs : End(t)
    \/ Tick

SpecConc == Init /\ [][NextConc]_vars

\* Generations racing over one account: two charges of res_a, one of them
\* enough for a single payout, the confirmation of the first payout, batch
\* runs of two dates and a single payout, as statements of the two
\* transactions.
RaceEvents ==
    {Body("e1", "charge_succeeded", 0 - MATURITY_DAYS, <<"res_a", "PEN">>, 5001, 1, NULL),
     Body("e2", "charge_succeeded", 0 - MATURITY_DAYS, <<"res_a", "PEN">>, MIN_PAYOUT_AMOUNT, 0, NULL),
     Body("e0", "payout_paid", 0, <<"res_a", "PEN">>, 0, 0, Some(1))}
RaceRuns == {[currency |-> "PEN", as_of |-> a, min_amount |-> 5000] : a \in {0, 1}}

NextRace ==
    \/ \E t \in Txs, event_data \in RaceEvents : BeginProcessEvent(t, event_data)
    \/ \E t \in Txs, payout_data \in RaceRuns : BeginRunPayouts(t, payout_data)
    \/ \E t \in Txs, payout_data \in ConcCreates : BeginGeneratePayout(t, payout_data)
    \/ \E t \in Txs : Step(t)
    \/ \E t \in Txs : End(t)

SpecRace == Init /\ [][NextRace]_vars

-----------------------------------------------------------------------------
(* Properties.  Those about one handler's answer evaluate the handler, with *)
(* RunToEnd, on the committed database of the state.                       *)

Stored(D, event_id) == \E e \in BagToSet(D.events) : e.event_id = event_id

\* COUNT(*) over the rows S of table B.
RECURSIVE Copies(_, _)
Copies(B, S) ==
    IF S = {} THEN 0
    ELSE LET e == CHOOSE r \in S : TRUE
         IN  CopiesIn(e, B) + Copies(B, S \ {e})

EventRows(event_id) == {e \in BagToSet(events) : e.event_id = event_id}

Postings(event_id, entry_type) ==
    {e \in BagToSet(ledger) :
        e.related_event_id = Some(event_id) /\ e.entry_type = entry_type}

Reserves(payout_id) ==
    {e \in BagToSet(ledger) : e.related_payout_id = Some(payout_id)}

AllAccounts == RestaurantIds \X Currencies

\* C1: an event served again and again, one request after the other, is stored
\* once and posted once.  The first request of an event_id commits, is new and
\* is answered 201, and the table gains the one row; the same request served
\* again commits, is not new, is answered 200 and leaves every table, and so
\* every balance, as it was.
C1_SequentialIdempotency ==
    \A b \in ProcessorEventCreate :
        LET first == RunToEnd(DB, process_event(b, payout_seq, now))
            D1 == Commit(DB, first)
            again == RunToEnd(D1, process_event(b, first.seq, now))
        IN  IF b \in BagToSet(events)
            THEN /\ first.pc = "commit" /\ ~first.is_new
                 /\ StatusCode(first) = HTTP_200_OK
                 /\ D1 = DB
            ELSE ~Stored(DB, b.event_id) =>
                 /\ first.pc = "commit" /\ first.is_new
                 /\ StatusCode(first) = HTTP_201_CREATED
                 /\ D1.events = Insert(events, b)
                 /\ again.pc = "commit" /\ ~again.is_new
                 /\ StatusCode(again) = HTTP_200_OK
                 /\ Commit(D1, again) = D1

\* A charge with a fee is stored, was answered 201 once, and is served again.
C1_Witness ==
    \E b \in Charges :
        /\ b \in BagToSet(events) /\ b.fee_cents > 0 /\ acks[b.event_id] = 1
        /\ Copies(ledger, Postings(b.event_id, "commission")) = 1
        /\ ~RunToEnd(DB, process_event(b, payout_seq, now)).is_new

\* C2, as stated: of the concurrent requests of one event_id none ends in an
\* error: one is answered 201 and every other one reads the stored event and
\* is answered 200.
C2_NoRequestEndsInError ==
    \A t \in Txs :
        tx[t].kind = "process_event" =>
            /\ tx[t].pc # "failed"
            /\ Ended(tx[t]) => StatusCode(tx[t]) \in {HTTP_201_CREATED, HTTP_200_OK}

\* C3: in every interleaving an event_id has at most one row in
\* processor_events, and at most one ledger entry of each type posted for it.
C3_AtMostOneEvent ==
    \A id \in EventIds :
        /\ Copies(events, EventRows(id)) <= 1
        /\ \A t \in EntryType : Copies(ledger, Postings(id, t)) <= 1
        /\ acks[id] <= 1

\* Two requests of one event_id raced: one is stored with its postings, the
\* INSERT of the other met the unique index.
C3_Witness ==
    \E t \in Txs :
        /\ tx[t].kind = "process_event" /\ tx[t].error = "INTEGRITY_ERROR"
        /\ Copies(events, EventRows(tx[t].arg.event_id)) = 1
        /\ Copies(ledger, Postings(tx[t].arg.event_id, "sale")) = 1
        /\ acks[tx[t].arg.event_id] = 1

\* C4: the committed tables hold an event together with all of its postings:
\* a stored charge has exactly one sale entry of +amount_cents and exactly one
\* commission entry of -fee_cents if fee_cents > 0, none otherwise; a stored
\* refund has exactly one refund entry of -amount_cents; no entry names an
\* event that is not stored.
C4_PostingsWithEvent ==
    /\ \A e \in BagToSet(events) :
          LET n(t) == Copies(ledger, Postings(e.event_id, t))
              of(t, amount) ==
                  \A l \in Postings(e.event_id, t) :
                      /\ l.amount_cents = amount
                      /\ OfAccount(l, e.restaurant_id, e.currency)
          IN  CASE e.event_type = "charge_succeeded" ->
                      /\ n("sale") = 1 /\ of("sale", e.amount_cents)
                      /\ n("commission") = (IF e.fee_cents > 0 THEN 1 ELSE 0)
                      /\ of("commission", 0 - e.fee_cents)
                      /\ n("refund") = 0
                [] e.event_type = "refund_succeeded" ->
                      /\ n("refund") = 1 /\ of("refund", 0 - e.amount_cents)
                      /\ n("sale") = 0 /\ n("commission") = 0
                [] e.event_type = "payout_paid" ->
                      n("sale") = 0 /\ n("commission") = 0 /\ n("refund") = 0
    /\ \A l \in BagToSet(ledger) :
          l.related_event_id # NULL => Stored(DB, Val(l.related_event_id))

\* A charge with a fee is committed with both postings while another
\* transaction has inserted its event and not yet posted for it.
C4_Witness ==
    /\ \E e \in BagToSet(events) :
          /\ e.event_type = "charge_succeeded" /\ e.fee_cents > 0
          /\ Copies(ledger, Postings(e.event_id, "commission")) = 1
    /\ \E t \in Txs :
          tx[t].pc = "dispatch" /\ tx[t].w.events # EmptyBag
              /\ tx[t].w.ledger = EmptyBag

\* The instants a balance is asked for: before, at and after each maturity.
Clocks == (0 - 1) .. (MaxNow + 1)

\* C5: for every account and every instant, available plus pending is the sum
\* of amount_cents over all the entries of the account, and total_cents of
\* get_balance is that sum.
C5_BalancePartition ==
    \A a \in AllAccounts, clock \in Clocks :
        LET balance == get_balance(DB, a[1], a[2], clock)
            all == SumAmounts(ledger,
                       {e \in BagToSet(ledger) : OfAccount(e, a[1], a[2])})
        IN  /\ balance.available_cents + balance.pending_cents = all
            /\ balance.total_cents = all
            /\ get_available_balance(DB, a[1], a[2], clock)
                 + get_pending_balance(DB, a[1], a[2], clock) = all

\* An account holds now a matured sale, a pending sale and a commission.
C5_Witness ==
    \E a \in AllAccounts :
        /\ get_balance(DB, a[1], a[2], now).pending_cents > 0
        /\ \E e \in BagToSet(ledger) :
              /\ OfAccount(e, a[1], a[2]) /\ e.entry_type = "sale"
              /\ e.amount_cents > 0 /\ e.available_at = Some(now)
        /\ \E e \in BagToSet(ledger) :
              OfAccount(e, a[1], a[2]) /\ e.entry_type = "commission"

\* C6, as stated: every sale entry is above zero and every commission, refund
\* and payout_reserve entry below zero.
C6_StrictSigns ==
    \A e \in BagToSet(ledger) :
        IF e.entry_type = "sale" THEN e.amount_cents > 0 ELSE e.amount_cents < 0

\* C6, amended: a sale entry is never below zero and a refund entry never above
\* zero (an accepted amount_cents of 0 posts an entry of 0); a commission and a
\* payout_reserve entry are below zero.
C6_Signs ==
    \A e \in BagToSet(ledger) :
        CASE e.entry_type = "sale" -> e.amount_cents >= 0
          [] e.entry_type = "refund" -> e.amount_cents <= 0
          [] e.entry_type = "commission" -> e.amount_cents < 0
          [] e.entry_type = "payout_reserve" -> e.amount_cents < 0

\* The ledger holds a sale of 0 with its commission, and a payout_reserve.
C6_Witness ==
    /\ \E e \in BagToSet(ledger) : e.entry_type = "sale" /\ e.amount_cents = 0
    /\ \A t \in {"commission", "payout_reserve"} :
          \E e \in BagToSet(ledger) : e.entry_type = t

\* C7: every payout has exactly one ledger entry that names it, and that entry
\* is a payout_reserve of the payout's restaurant and currency whose amount is
\* minus the payout's; so it is once the payout is paid or failed.
C7_OneReservePerPayout ==
    \A id \in DOMAIN payouts :
        /\ Copies(ledger, Reserves(id)) = 1
        /\ \A e \in Reserves(id) :
              /\ e.entry_type = "payout_reserve"
              /\ OfAccount(e, payouts[id].restaurant_id, payouts[id].currency)
              /\ e.amount_cents = 0 - payouts[id].amount_cents

\* One payout is paid and another has failed.
C7_Witness ==
    /\ \E id \in DOMAIN payouts : payouts[id].status = "paid"
    /\ \E id \in DOMAIN payouts : payouts[id].status = "failed"

\* C8: in every interleaving of batch runs and single payouts, no two payouts
\* have the same (restaurant_id, currency, as_of).
C8_OnePayoutPerAsOf ==
    \A p, q \in DOMAIN payouts :
        p # q =>
            <<payouts[p].restaurant_id, payouts[p].currency, payouts[p].as_of>>
                # <<payouts[q].restaurant_id, payouts[q].currency, payouts[q].as_of>>

\* A generator's INSERT met the unique constraint: the payout of the key is
\* committed and the second one was refused.
C8_Witness ==
    \E t \in Txs :
        /\ tx[t].kind \in {"batch", "single"} /\ tx[t].error = "INTEGRITY_ERROR"
        /\ \E p \in DOMAIN payouts :
              /\ payouts[p].restaurant_id = Current(tx[t])
              /\ payouts[p].currency = RunCurrency(tx[t])

\* C9: a payout is paid exactly when its paid_at is set.
C9_PaidIffPaidAt ==
    \A id \in DOMAIN payouts :
        payouts[id].status = "paid" <=> payouts[id].paid_at # NULL

\* A payout was paid by a payout_paid event, and the update that would leave
\* it failed with its paid_at is refused.
C9_Witness ==
    \E id \in DOMAIN payouts :
        /\ payouts[id].status = "paid" /\ payouts[id].paid_at # NULL
        /\ \E e \in BagToSet(events) :
              e.event_type = "payout_paid" /\ e.payout_id = Some(id)
        /\ RunToEnd(DB, update_status_call(
                [payout_id |-> id, status |-> "failed", failure_reason |-> NULL],
                payout_seq, now)).error = "INTEGRITY_ERROR"

\* The status of payout id once handler x has run and ended.
StatusAfter(x, id) == Commit(DB, RunToEnd(DB, x)).payouts[id].status

\* C10, as stated: a payout that is paid or failed keeps its status whatever is
\* served next: no update_status call and no payout_paid event changes it.
C10_TerminalStays ==
    \A id \in DOMAIN payouts :
        payouts[id].status \in {"paid", "failed"} =>
            /\ \A call \in UpdateStatusCalls :
                  call.payout_id = id =>
                      StatusAfter(update_status_call(call, payout_seq, now), id)
                          = payouts[id].status
            /\ \A b \in PayoutPaids :
                  b.payout_id = Some(id) =>
                      StatusAfter(process_event(b, payout_seq, now), id)
                          = payouts[id].status

\* C11: a batch run served alone never fails and creates no payout for a
\* restaurant that has one for (currency, as_of); and the same run served
\* again right after it, the restaurants in any order and no entry maturing
\* in between, creates no payout, no payout item and no ledger entry, and
\* returns 0.
C11_BatchIdempotent ==
    \A payout_data \in PayoutRunRequest :
        \A ids \in list_active_restaurant_ids(DB) :
            LET first == RunToEnd(DB, generate_payouts_batch(payout_data, ids,
                                                            payout_seq, now))
                D1 == Commit(DB, first)
            IN  /\ first.pc \in {"commit", "capped"}
                /\ \A id \in DOMAIN first.w.payouts :
                      ~exists_for_as_of(DB, first.w.payouts[id].restaurant_id,
                                        payout_data.currency, payout_data.as_of)
                /\ first.pc = "commit" =>
                      \A again \in list_active_restaurant_ids(D1) :
                          LET second == RunToEnd(D1,
                                  generate_payouts_batch(payout_data, again,
                                                         first.seq, now))
                          IN  /\ second.pc = "commit"
                              /\ second.count = 0
                              /\ Commit(D1, second) = D1

\* A batch run has created a payout that is paid by now, and its restaurant
\* has funds above the run's min_amount again.
C11_Witness ==
    \E q \in DOMAIN payouts, payout_data \in PayoutRunRequest :
        /\ payouts[q].status = "paid"
        /\ payouts[q].as_of = payout_data.as_of /\ payouts[q].as_of # now
        /\ payouts[q].currency = payout_data.currency
        /\ get_available_balance(DB, payouts[q].restaurant_id,
                                   payouts[q].currency, now) >= payout_data.min_amount

\* C12, as stated: a batch run whose INSERT meets the unique constraint on
\* (restaurant_id, currency, as_of) goes on with the next restaurant: no batch
\* transaction ends with the IntegrityError, rolled back.
C12_BatchContinues ==
    \A t \in Txs :
        tx[t].kind = "batch" =>
            tx[t].pc # "failed" /\ tx[t].error # "INTEGRITY_ERROR"

\* The transaction has taken the balance of (restaurant_id, currency) under the
\* lock and has not ended.
Reserving(x, restaurant_id, currency) ==
    /\ x.kind \in {"batch", "single"}
    /\ x.pc \in {"create_payout", "create_items"} \/ DOMAIN x.w.payouts # {}
    /\ \E e \in x.locks : OfAccount(e, restaurant_id, currency)

SalesOf(restaurant_id, currency) ==
    {e \in BagToSet(ledger) :
        OfAccount(e, restaurant_id, currency) /\ e.entry_type = "sale"}

ReservesOf(restaurant_id, currency) ==
    {e \in BagToSet(ledger) :
        OfAccount(e, restaurant_id, currency) /\ e.entry_type = "payout_reserve"}

\* C13: payout generation for one (restaurant, currency) is serialized: no two
\* open transactions hold the lock on a ledger row together or are both
\* between taking the balance of the pair and their commit, and the payouts of
\* the pair never reserve more than its sales brought in, so no funds are
\* reserved twice.
C13_GenerationSerialized ==
    /\ \A t, u \in Txs :
          t # u =>
              /\ tx[t].locks \cap tx[u].locks = {}
              /\ \A a \in AllAccounts :
                    ~(Reserving(tx[t], a[1], a[2]) /\ Reserving(tx[u], a[1], a[2]))
    /\ \A a \in AllAccounts :
          SumAmounts(ledger, SalesOf(a[1], a[2]))
              + SumAmounts(ledger, ReservesOf(a[1], a[2])) >= 0

\* A generation waits for the lock another one holds on the rows of the pair,
\* which has inserted its payout and not yet committed.
C13_Witness ==
    \E t, u \in Txs :
        /\ t # u
        /\ tx[t].pc \in {"lock_balance", "single_lock_balance"}
        /\ Blocked(DB, tx[t], {tx[u]})
        /\ DOMAIN tx[u].w.payouts # {}

\* The rows of table payouts a transaction has inserted for the restaurant.
CreatedFor(x, restaurant_id) ==
    {id \in DOMAIN x.w.payouts : x.w.payouts[id].restaurant_id = restaurant_id}

\* The payout_reserve entries a transaction has written for the restaurant.
ReservedFor(x, restaurant_id) ==
    {e \in BagToSet(x.w.ledger) :
        e.restaurant_id = restaurant_id /\ e.entry_type = "payout_reserve"}

\* C14: in a batch run an active restaurant with no created or processing
\* payout for the currency and no payout for (restaurant, currency, as_of) gets
\* a payout iff its available balance is >= min_amount: at min_amount and above
\* one payout of the balance and its payout_reserve entry, below it (so at
\* min_amount - 1) neither a payout nor a payout_reserve entry.
C14_EligibleIffAtLeastMin ==
    \A payout_data \in PayoutRunRequest :
        \A ids \in list_active_restaurant_ids(DB) :
            LET run == RunToEnd(DB, generate_payouts_batch(payout_data, ids, payout_seq, now))
            IN  run.pc = "commit" =>
                    \A i \in DOMAIN ids :
                        LET available == get_available_balance(DB, ids[i], payout_data.currency, now)
                        IN  (/\ ~has_pending_payouts(DB, ids[i], payout_data.currency)
                             /\ ~exists_for_as_of(DB, ids[i], payout_data.currency, payout_data.as_of))
                            => IF available >= payout_data.min_amount
                               THEN /\ Cardinality(CreatedFor(run, ids[i])) = 1
                                    /\ \A id \in CreatedFor(run, ids[i]) :
                                          run.w.payouts[id].amount_cents = available
                                    /\ Copies(run.w.ledger, ReservedFor(run, ids[i])) = 1
                               ELSE /\ CreatedFor(run, ids[i]) = {}
                                    /\ ReservedFor(run, ids[i]) = {}

\* Two active restaurants without payouts, one with an available balance of
\* exactly min_amount and one with min_amount - 1, when a batch run can start.
C14_Witness ==
    \E payout_data \in PayoutRunRequest :
        \E r1, r2 \in {r.id : r \in restaurants} :
            /\ get_available_balance(DB, r1, payout_data.currency, now) = payout_data.min_amount
            /\ get_available_balance(DB, r2, payout_data.currency, now) = payout_data.min_amount - 1
            /\ ~has_pending_payouts(DB, r1, payout_data.currency)
            /\ ~exists_for_as_of(DB, r1, payout_data.currency, payout_data.as_of)
            /\ ~has_pending_payouts(DB, r2, payout_data.currency)
            /\ ~exists_for_as_of(DB, r2, payout_data.currency, payout_data.as_of)
            /\ payout_seq < MaxPayoutId

\* What one sale entry adds to the balances of its account at an instant: the
\* balances over the ledger less the balances over the ledger without the entry.
CountedIn(e, clock) ==
    LET without == [DB EXCEPT !.ledger = ledger (-) SetToBag({e})]
        with == get_balance_summary(DB, e.restaurant_id, e.currency, clock)
        less == get_balance_summary(without, e.restaurant_id, e.currency, clock)
    IN  [available |-> with.available - less.available,
         pending |-> with.pending - less.pending,
         available_alone |->
             get_available_balance(DB, e.restaurant_id, e.currency, clock)
             - get_available_balance(without, e.restaurant_id, e.currency, clock),
         pending_alone |->
             get_pending_balance(DB, e.restaurant_id, e.currency, clock)
             - get_pending_balance(without, e.restaurant_id, e.currency, clock)]

SaleEntries == {e \in BagToSet(ledger) : e.entry_type = "sale"}

\* C15, as stated: a sale entry with available_at = T is counted in the pending
\* balance at now = T and in the available balance only when now > T.
C15_PendingAtMaturity ==
    \A e \in SaleEntries :
        LET at == CountedIn(e, Val(e.available_at))
        IN  /\ at.pending = e.amount_cents /\ at.available = 0
            /\ at.pending_alone = e.amount_cents /\ at.available_alone = 0

\* C15, amended: a sale entry with available_at = T is counted in the
\* available balance from now = T on (available_at <= now) and in the pending
\* balance only while now < T.
C15_AvailableAtMaturity ==
    \A e \in SaleEntries :
        \A clock \in Clocks :
            LET at == CountedIn(e, clock)
                matured == Val(e.available_at) <= clock
            IN  /\ at.available = (IF matured THEN e.amount_cents ELSE 0)
                /\ at.pending = (IF matured THEN 0 ELSE e.amount_cents)
                /\ at.available_alone = at.available
                /\ at.pending_alone = at.pending

\* The ledger holds a sale of a positive amount whose available_at is now.
C15_Witness ==
    \E e \in SaleEntries :
        /\ e.amount_cents > 0 /\ e.available_at = Some(now)
        /\ get_available_balance(DB, e.restaurant_id, e.currency, now) > 0

\* Event ids no request of the model uses.
FreshIds == <<"e3", "e4">>

\* The database after the event has been ingested at the instant clock.
Ingested(D, event_data, clock) ==
    Commit(D, RunToEnd(D, process_event(event_data, payout_seq, clock)))

Balances(available, pending) ==
    [available_cents |-> available, pending_cents |-> pending,
     total_cents |-> available + pending]

BalancesOf(D, a) ==
    LET balance == get_balance(D, a[1], a[2], now)
    IN  Balances(balance.available_cents, balance.pending_cents)

\* C16: a sale entry's available_at is its event's occurred_at + 7 days,
\* whenever the event was ingested, and commission, refund and payout_reserve
\* entries have available_at null.  A charge with occurred_at = now, amount a
\* and fee f ingested into an account without entries gives available -f,
\* pending a and total a - f; a refund of x after it gives available -f - x,
\* pending a and total a - f - x.
C16_MaturityFromOccurredAt ==
    /\ \A e \in BagToSet(ledger) :
          IF e.entry_type = "sale"
          THEN \E ev \in BagToSet(events) :
                  /\ e.related_event_id = Some(ev.event_id)
                  /\ e.available_at = Some(ev.occurred_at + MATURITY_DAYS)
          ELSE e.available_at = NULL
    /\ \A b \in Charges, clock \in Clocks :
          ~Stored(DB, b.event_id) =>
              \A e \in BagToSet(Ingested(DB, b, clock).ledger) :
                  (e.related_event_id = Some(b.event_id) /\ e.entry_type = "sale")
                      => e.available_at = Some(b.occurred_at + MATURITY_DAYS)
    /\ \A a \in Accounts, amount \in Amounts, fee \in Fees, x \in Amounts :
          (\A e \in BagToSet(ledger) : ~OfAccount(e, a[1], a[2])) =>
              LET charge == Body(FreshIds[1], "charge_succeeded", now, a, amount, fee, NULL)
                  refund == Body(FreshIds[2], "refund_succeeded", now, a, x, 0, NULL)
                  D1 == Ingested(DB, charge, now)
                  D2 == Ingested(D1, refund, now)
              IN  /\ BalancesOf(D1, a) = Balances(0 - fee, amount)
                  /\ BalancesOf(D2, a) = Balances(0 - fee - x, amount)

\* An account holds a sale that is still pending, its commission and a refund,
\* and nothing else: available is -(fee + refund) and pending the sale.
C16_Witness ==
    \E a \in Accounts :
        \E sale, commission, refund \in BagToSet(ledger) :
            /\ OfAccount(sale, a[1], a[2]) /\ sale.entry_type = "sale"
            /\ sale.amount_cents > 0 /\ Val(sale.available_at) > now
            /\ OfAccount(commission, a[1], a[2]) /\ commission.entry_type = "commission"
            /\ OfAccount(refund, a[1], a[2]) /\ refund.entry_type = "refund"
            /\ refund.amount_cents < 0
            /\ BalancesOf(DB, a)
                 = Balances(commission.amount_cents + refund.amount_cents, sale.amount_cents)

\* The starts of the generator the state allows: every batch run over the
\* active restaurants in any order, and every single generation.
GeneratorRuns ==
    {generate_payouts_batch(payout_data, ids, payout_seq, now) :
        payout_data \in PayoutRunRequest, ids \in list_active_restaurant_ids(DB)}
    \cup {generate_payout(payout_data, payout_seq, now) : payout_data \in PayoutCreate}

\* C17: a payout the generator creates has amount_cents equal to the available
\* balance of its (restaurant, currency) when the run took it, and status
\* created; and once the run has committed, nothing else ingested meanwhile,
\* the available balance of that (restaurant, currency) is exactly 0.
C17_PayoutTakesWholeBalance ==
    \A start \in GeneratorRuns :
        LET run == RunToEnd(DB, start)
            D1 == Commit(DB, run)
        IN  run.pc = "commit" =>
                \A id \in DOMAIN run.w.payouts :
                    LET p == run.w.payouts[id]
                    IN  /\ p.amount_cents
                             = get_available_balance(DB, p.restaurant_id, p.currency, now)
                        /\ p.status = "created"
                        /\ get_available_balance(D1, p.restaurant_id, p.currency, now) = 0

\* A generator run has committed a payout, still created, whose reserving entry
\* has brought the available balance of its account to 0.
C17_Witness ==
    \E id \in DOMAIN payouts :
        /\ payouts[id].status = "created"
        /\ \E e \in Reserves(id) : e.amount_cents = 0 - payouts[id].amount_cents
        /\ get_available_balance(DB, payouts[id].restaurant_id, payouts[id].currency, now) = 0
        /\ get_available_balance(DB, payouts[id].restaurant_id, payouts[id].currency, now + MATURITY_DAYS) = 0

\* The answer to the event served alone now, and the database it leaves.
Served(event_data) == RunToEnd(DB, process_event(event_data, payout_seq, now))

AllBalances(D) == [a \in AllAccounts |-> BalancesOf(D, a)]

\* C18: a new payout_paid event that names an existing payout in status
\* created or processing is stored and answered 201, sets that payout to paid
\* with paid_at = now and changes nothing else of it, leaves the other payouts
\* alone, and creates no ledger entry: every balance is as before.
C18_PayoutPaidMarksPaid ==
    \A b \in PayoutPaids :
        (/\ ~Stored(DB, b.event_id)
         /\ b.payout_id # NULL
         /\ Val(b.payout_id) \in DOMAIN payouts
         /\ payouts[Val(b.payout_id)].status \in {"created", "processing"})
        => LET run == Served(b)
               D1 == Commit(DB, run)
               id == Val(b.payout_id)
           IN  /\ run.pc = "commit" /\ run.is_new /\ StatusCode(run) = HTTP_201_CREATED
               /\ Stored(D1, b.event_id)
               /\ D1.payouts = [payouts EXCEPT ![id].status = "paid",
                                               ![id].paid_at = Some(now)]
               /\ D1.ledger = ledger
               /\ AllBalances(D1) = AllBalances(DB)

\* A stored payout_paid event names a payout that is paid with paid_at set, and
\* the reserving entry is still the only entry of the payout.
C18_Witness ==
    \E ev \in BagToSet(events) :
        /\ ev.event_type = "payout_paid" /\ ev.payout_id # NULL
        /\ Val(ev.payout_id) \in DOMAIN payouts
        /\ payouts[Val(ev.payout_id)].status = "paid"
        /\ payouts[Val(ev.payout_id)].paid_at # NULL
        /\ Copies(ledger, Reserves(Val(ev.payout_id))) = 1
        /\ Postings(ev.event_id, "payout_reserve") = {}

\* C19: a new payout_paid event without payout_id in its metadata, or naming
\* a payout id that does not exist, is stored and answered 201: the request
\* commits without error, no payout changes and no ledger entry is created.
C19_PayoutPaidWithoutPayout ==
    \A b \in PayoutPaids :
        (/\ ~Stored(DB, b.event_id)
         /\ b.payout_id = NULL \/ Val(b.payout_id) \notin DOMAIN payouts)
        => LET run == Served(b)
               D1 == Commit(DB, run)
           IN  /\ run.pc = "commit" /\ run.error = "none"
               /\ run.is_new /\ StatusCode(run) = HTTP_201_CREATED
               /\ Copies(D1.events, {e \in BagToSet(D1.events) : e.event_id = b.event_id}) = 1
               /\ D1.payouts = payouts
               /\ D1.ledger = ledger
               /\ D1.items = items

\* Two payout_paid events are stored, one without payout_id and one naming a
\* payout id that does not exist, and no payout is paid.
C19_Witness ==
    \E e1, e2 \in BagToSet(events) :
        /\ e1.event_type = "payout_paid" /\ e1.payout_id = NULL
        /\ e2.event_type = "payout_paid" /\ e2.payout_id # NULL
        /\ Val(e2.payout_id) \notin DOMAIN payouts
        /\ \A id \in DOMAIN payouts : payouts[id].status # "paid"
        /\ acks[e1.event_id] = 1 /\ acks[e2.event_id] = 1

\* FOREIGN KEY related_event_id -> processor_events.event_id and
\* related_payout_id -> payouts.id, over the rows of a database.
NoOrphans(D) ==
    \A e \in BagToSet(D.ledger) :
        /\ e.related_event_id # NULL => Stored(D, Val(e.related_event_id))
        /\ e.related_payout_id # NULL => Val(e.related_payout_id) \in DOMAIN D.payouts

\* C20: in every committed state no ledger entry is an orphan: a related_event_id
\* is the event_id of a stored event and a related_payout_id the id of an
\* existing payout; and every statement of an open transaction sees none either.
C20_NoOrphanEntries ==
    /\ NoOrphans(DB)
    /\ \A t \in Txs : NoOrphans(View(DB, tx[t].w))

\* The committed ledger holds an entry of an event and an entry of a payout,
\* written by transactions that ran beside another one.
C20_Witness ==
    /\ \E e \in BagToSet(ledger) : e.related_event_id # NULL
    /\ \E e \in BagToSet(ledger) : e.related_payout_id # NULL
    /\ \E t \in Txs : tx[t].pc = "failed"

PostingsIn(D, event_id, entry_type) ==
    {e \in BagToSet(D.ledger) :
        e.related_event_id = Some(event_id) /\ e.entry_type = entry_type}

\* C22: a new charge_succeeded event with amount_cents = 0 is accepted, stored
\* and answered 201; it posts one sale entry of 0 and, when fee_cents > 0, one
\* commission entry of -fee_cents and otherwise none, and nothing else, so the
\* total balance of its account changes by exactly -fee_cents.
C22_ZeroCharge ==
    \A b \in Charges :
        (b.amount_cents = 0 /\ ~Stored(DB, b.event_id)) =>
            LET run == Served(b)
                D1 == Commit(DB, run)
                a == <<b.restaurant_id, b.currency>>
                sales == PostingsIn(D1, b.event_id, "sale")
                commissions == PostingsIn(D1, b.event_id, "commission")
            IN  /\ run.pc = "commit" /\ run.is_new /\ StatusCode(run) = HTTP_201_CREATED
                /\ Stored(D1, b.event_id)
                /\ Copies(D1.ledger, sales) = 1
                /\ \A e \in sales : e.amount_cents = 0
                /\ Copies(D1.ledger, commissions) = (IF b.fee_cents > 0 THEN 1 ELSE 0)
                /\ \A e \in commissions : e.amount_cents = 0 - b.fee_cents
                /\ BagCardinality(D1.ledger)
                     = BagCardinality(ledger) + 1 + (IF b.fee_cents > 0 THEN 1 ELSE 0)
                /\ BalancesOf(D1, a).total_cents = BalancesOf(DB, a).total_cents - b.fee_cents

\* A charge of amount 0 with a fee is stored, with its sale entry of 0 and its
\* commission entry, and the total balance of its account is below zero.
C22_Witness ==
    \E b \in BagToSet(events) :
        /\ b.event_type = "charge_succeeded" /\ b.amount_cents = 0 /\ b.fee_cents > 0
        /\ acks[b.event_id] = 1
        /\ \E e \in Postings(b.event_id, "sale") : e.amount_cents = 0
        /\ \E e \in Postings(b.event_id, "commission") : e.amount_cents = 0 - b.fee_cents
        /\ BalancesOf(DB, <<b.restaurant_id, b.currency>>).total_cents < 0

\* C23: a batch run that fails is rolled back as a whole: when its transaction
\* ends, no table has changed, whatever the run had created before the
\* failure, and the caller keeps the 202 it was given.
C23_FailedBatchRollsBack ==
    [][\A t \in Txs :
          (tx[t].kind = "batch" /\ tx[t].pc = "failed" /\ tx'[t] = Idle)
              => /\ restaurants' = restaurants /\ events' = events
                 /\ ledger' = ledger /\ payouts' = payouts /\ items' = items
                 /\ StatusCode(tx[t]) = HTTP_202_ACCEPTED]_vars

\* A batch run has failed after it had created the payout, the items and the
\* reserving entry of another restaurant, and is about to end.
C23_Witness ==
    \E t \in Txs :
        /\ tx[t].kind = "batch" /\ tx[t].pc = "failed"
        /\ DOMAIN tx[t].w.payouts # {}
        /\ tx[t].w.items # EmptyBag
        /\ \E e \in BagToSet(tx[t].w.ledger) : e.entry_type = "payout_reserve"

\* The request found no restaurant, and by the time of its INSERT another
\* request has committed the row.
LostInsertRace(x) ==
    /\ x.kind = "process_event" /\ x.pc = "insert_restaurant"
    /\ \E r \in restaurants : r.id = x.arg.restaurant_id

\* C24: process_event requests with different event_ids that meet on a
\* restaurant that does not exist yet are all served: the conflict on the
\* restaurant INSERT ends no request (a request fails only on an event_id
\* another request has stored), the request that lost the INSERT goes on to
\* store its event and its entries, and the restaurant row is inserted once: no
\* open transaction holds an INSERT of a restaurant that is committed or that
\* another open transaction has inserted.
C24_GetOrCreateRace ==
    /\ \A t \in Txs :
          /\ (tx[t].kind = "process_event" /\ tx[t].pc = "failed")
                => Stored(DB, tx[t].arg.event_id)
          /\ \A r \in tx[t].w.restaurants :
                /\ \A s \in restaurants : s.id # r.id
                /\ \A u \in Txs \ {t} : \A s \in tx[u].w.restaurants : s.id # r.id
          /\ (LostInsertRace(tx[t]) /\ ~Stored(DB, tx[t].arg.event_id))
                => LET run == RunToEnd(DB, tx[t])
                       D1 == Commit(DB, run)
                   IN  /\ run.pc = "commit" /\ run.is_new
                       /\ Stored(D1, tx[t].arg.event_id)
                       /\ D1.restaurants = restaurants
                       /\ tx[t].arg.event_type = "charge_succeeded"
                             => PostingsIn(D1, tx[t].arg.event_id, "sale") # {}

\* A request is at the INSERT of a restaurant that the request of another
\* event has committed meanwhile, with the entries of that event.
C24_Witness ==
    \E t \in Txs :
        /\ LostInsertRace(tx[t])
        /\ ~Stored(DB, tx[t].arg.event_id)
        /\ \E e \in BagToSet(events) :
              /\ e.restaurant_id = tx[t].arg.restaurant_id
              /\ e.event_id # tx[t].arg.event_id
              /\ Postings(e.event_id, "sale") # {}

\* C25, as stated: a process_event call whose event_id is stored, whatever its
\* other fields, is an idempotent hit that changes no state: no restaurant,
\* event, ledger entry or payout is inserted or modified.
C25_ReplayChangesNothing ==
    \A b \in ProcessorEventCreate :
        Stored(DB, b.event_id) =>
            LET run == Served(b)
            IN  /\ run.pc = "commit" /\ ~run.is_new
                /\ Commit(DB, run) = DB

C27_SingleRejections ==
    \A payout_data \in PayoutCreate :
        LET run == RunToEnd(DB, generate_payout(payout_data, payout_seq, now))
            available == get_available_balance(DB, payout_data.restaurant_id,
                                               payout_data.currency, now)
        IN  IF has_pending_payouts(DB, payout_data.restaurant_id, payout_data.currency)
            THEN /\ run.pc = "failed" /\ run.error = "PAYOUT_ALREADY_PENDING"
                 /\ run.locks = {} /\ run.balance = 0
                 /\ run.w = NoWrites /\ Commit(DB, run) = DB
                 /\ StatusCode(run) = HTTP_409_CONFLICT
            ELSE available < MIN_PAYOUT_AMOUNT =>
                     /\ run.pc = "failed" /\ run.error = "PAYOUT_INSUFFICIENT_BALANCE"
                     /\ run.balance = available
                     /\ run.w = NoWrites /\ Commit(DB, run) = DB
                     /\ StatusCode(run) = HTTP_409_CONFLICT

\* One account has a created payout, and another has funds below
\* MIN_PAYOUT_AMOUNT and no payout.
C27_Witness ==
    \E a, b \in Accounts :
        /\ has_pending_payouts(DB, a[1], a[2])
        /\ ~has_pending_payouts(DB, b[1], b[2])
        /\ get_available_balance(DB, b[1], b[2], now) > 0
        /\ get_available_balance(DB, b[1], b[2], now) < MIN_PAYOUT_AMOUNT

\* The item type of each entry type that has one.
ItemTypeOf == [sale |-> "net_sales", commission |-> "fees", refund |-> "refunds"]

\* The sum of the entries of one type of the account that have matured.
MaturedOfType(restaurant_id, currency, entry_type) ==
    SumAmounts(ledger,
        {e \in BagToSet(ledger) :
            /\ e.restaurant_id = restaurant_id /\ e.currency = currency
            /\ e.entry_type = entry_type
            /\ (e.available_at = NULL \/ Val(e.available_at) <= now)})

ItemsOf(B, payout_id, item_type) ==
    {i \in BagToSet(B) : i.payout_id = payout_id /\ i.item_type = item_type}

\* C28: the items of a payout the generator creates are the sums, by type, of
\* the matured entries of its (restaurant, currency): net_sales of the sale
\* entries, fees of the commission entries, refunds of the refund entries;
\* one item for a sum that is not 0 and none for a sum of 0, and no item of
\* another type, so payout_reserve entries are in no item.  Every payout there
\* is has at most one item per type and no item of amount 0.
C28_ItemsByType ==
    /\ \A start \in GeneratorRuns :
          LET run == RunToEnd(DB, start)
          IN  run.pc = "commit" =>
                  \A id \in DOMAIN run.w.payouts :
                      LET p == run.w.payouts[id]
                      IN  /\ \A t \in DOMAIN ItemTypeOf :
                                LET total == MaturedOfType(p.restaurant_id, p.currency, t)
                                    lines == ItemsOf(run.w.items, id, ItemTypeOf[t])
                                IN  IF total = 0 THEN lines = {}
                                    ELSE /\ Copies(run.w.items, lines) = 1
                                         /\ \A i \in lines : i.amount_cents = total
                          /\ \A i \in BagToSet(run.w.items) :
                                i.payout_id = id => i.item_type \in {"net_sales", "fees", "refunds"}
    /\ \A i \in BagToSet(items) :
          /\ i.amount_cents # 0
          /\ Copies(items, ItemsOf(items, i.payout_id, i.item_type)) = 1
          /\ i.item_type \in {"net_sales", "fees", "refunds"}

\* A payout has a net_sales item and a fees item and, its account having no
\* refund, no refunds item; its reserving entry is in the ledger.
C28_Witness ==
    \E id \in DOMAIN payouts :
        /\ ItemsOf(items, id, "net_sales") # {}
        /\ ItemsOf(items, id, "fees") # {}
        /\ ItemsOf(items, id, "refunds") = {}
        /\ Reserves(id) # {}

\* The database with is_active = false on the restaurants S: the column has no
\* writer in the application, so a restaurant is deactivated from outside it.
Deactivated(D, S) ==
    [D EXCEPT !.restaurants = {[r EXCEPT !.is_active = (r.id \notin S)] : r \in @}]

\* C29: a batch run creates payouts only for the restaurants that are active
\* when it runs: whichever restaurants are inactive, and whatever their
\* balances, the run is not given them and creates no payout, payout item or
\* payout_reserve entry for them.
C29_OnlyActiveRestaurants ==
    \A S \in SUBSET {r.id : r \in restaurants} :
        \A payout_data \in PayoutRunRequest :
            \A ids \in list_active_restaurant_ids(Deactivated(DB, S)) :
                LET run == RunToEnd(Deactivated(DB, S),
                                    generate_payouts_batch(payout_data, ids, payout_seq, now))
                IN  /\ \A i \in DOMAIN ids : ids[i] \notin S
                    /\ \A id \in DOMAIN run.w.payouts :
                          run.w.payouts[id].restaurant_id \notin S
                    /\ \A e \in BagToSet(run.w.ledger) : e.restaurant_id \notin S

\* Two restaurants hold funds that a batch run would pay out now: with one of
\* them inactive the run pays the other alone.
C29_Witness ==
    \E payout_data \in PayoutRunRequest :
        \E r1, r2 \in {r.id : r \in restaurants} :
            /\ r1 # r2
            /\ \A r \in {r1, r2} :
                  /\ get_available_balance(DB, r, payout_data.currency, now) >= payout_data.min_amount
                  /\ ~has_pending_payouts(DB, r, payout_data.currency)
                  /\ ~exists_for_as_of(DB, r, payout_data.currency, payout_data.as_of)
            /\ \E ids \in list_active_restaurant_ids(Deactivated(DB, {r1})) :
                  LET run == RunToEnd(Deactivated(DB, {r1}),
                                      generate_payouts_batch(payout_data, ids, payout_seq, now))
                  IN  /\ run.pc = "commit" /\ run.count = 1
                      /\ \E id \in DOMAIN run.w.payouts :
                            run.w.payouts[id].restaurant_id = r2

\* C30: balances are isolated per (restaurant, currency): an event ingested for
\* (r, c) writes entries of (r, c) only and leaves the available, pending and
\* total balance of every other pair as they were; a batch run for currency c
\* creates payouts and entries in c only and leaves the balances of the
\* accounts in other currencies as they were.
C30_AccountsIsolated ==
    /\ \A b \in ProcessorEventCreate :
          LET run == Served(b)
              D1 == Commit(DB, run)
          IN  /\ \A a \in AllAccounts \ {<<b.restaurant_id, b.currency>>} :
                    BalancesOf(D1, a) = BalancesOf(DB, a)
              /\ \A e \in BagToSet(run.w.ledger) :
                    OfAccount(e, b.restaurant_id, b.currency)
    /\ \A payout_data \in PayoutRunRequest :
          \A ids \in list_active_restaurant_ids(DB) :
              LET run == RunToEnd(DB, generate_payouts_batch(payout_data, ids, payout_seq, now))
                  D1 == Commit(DB, run)
              IN  /\ \A id \in DOMAIN run.w.payouts :
                        run.w.payouts[id].currency = payout_data.currency
                  /\ \A e \in BagToSet(run.w.ledger) : e.currency = payout_data.currency
                  /\ \A a \in AllAccounts :
                        a[2] # payout_data.currency => BalancesOf(D1, a) = BalancesOf(DB, a)

\* One restaurant has entries in two currencies with different balances, and a
\* batch run has paid out one of them alone.
C30_Witness ==
    \E r \in RestaurantIds, c, d \in Currencies :
        /\ c # d
        /\ BalancesOf(DB, <<r, d>>).total_cents > 0
        /\ BalancesOf(DB, <<r, d>>).available_cents > 0
        /\ BalancesOf(DB, <<r, c>>).available_cents = 0
        /\ \E id \in DOMAIN payouts :
              /\ payouts[id].restaurant_id = r /\ payouts[id].currency = c
              /\ Reserves(id) # {}

\* C31, as stated: a payout is failed only together with a failure_reason:
\* every payout with status failed has a failure_reason, and an update_status
\* to failed without one does not take effect.
C31_FailedHasReason ==
    /\ \A id \in DOMAIN payouts :
          payouts[id].status = "failed" => payouts[id].failure_reason # NULL
    /\ \A call \in UpdateStatusCalls :
          (/\ call.status = "failed" /\ call.failure_reason = NULL
           /\ call.payout_id \in DOMAIN payouts)
          => Commit(DB, RunToEnd(DB, update_status_call(call, payout_seq, now))) = DB

\* The amount has the sign of its entry type, 0 allowed.
RightSigned(e) ==
    IF e.entry_type = "sale" THEN ~(e.amount_cents < 0) ELSE ~(e.amount_cents > 0)

\* C32: after any sequence of ingested events and payout generations no ledger
\* entry is wrong-signed: no sale entry is below 0 and no commission, refund
\* or payout_reserve entry above 0; and whatever event or generation comes
\* next writes only such entries.
C32_NoWrongSign ==
    /\ \A e \in BagToSet(ledger) : RightSigned(e)
    /\ \A b \in ProcessorEventCreate :
          \A e \in BagToSet(Served(b).w.ledger) : RightSigned(e)
    /\ \A start \in GeneratorRuns :
          \A e \in BagToSet(RunToEnd(DB, start).w.ledger) : RightSigned(e)

\* The ledger holds a sale above 0, a commission below 0 and the reserving
\* entry, below 0, of a payout generated over them.
C32_Witness ==
    \E s, c, p \in BagToSet(ledger) :
        /\ s.entry_type = "sale" /\ s.amount_cents > 0
        /\ c.entry_type = "commission" /\ c.amount_cents < 0
        /\ p.entry_type = "payout_reserve" /\ p.amount_cents < 0
        /\ OfAccount(c, s.restaurant_id, s.currency)
        /\ OfAccount(p, s.restaurant_id, s.currency)

\* The sum of amount_cents over the payouts of S.
RECURSIVE SumPayouts(_)
SumPayouts(S) ==
    IF S = {} THEN 0
    ELSE LET id == CHOOSE i \in S : TRUE
         IN  payouts[id].amount_cents + SumPayouts(S \ {id})

PaidOf(restaurant_id, currency) ==
    {id \in DOMAIN payouts :
        /\ OfAccount(payouts[id], restaurant_id, currency)
        /\ payouts[id].status = "paid"}

\* C33, as stated: in every committed state the reserves reconcile with the
\* paid payouts: for every (restaurant, currency) the amounts of the paid
\* payouts plus the amounts of the payout_reserve entries sum to 0, up to an
\* absolute difference of 1.
C33_ReservesReconcile ==
    \A a \in AllAccounts :
        LET total == SumPayouts(PaidOf(a[1], a[2]))
                     + SumAmounts(ledger, ReservesOf(a[1], a[2]))
        IN  total \in (0 - 1) .. 1

\* The threshold in force of a generation: min_amount of the batch request,
\* MIN_PAYOUT_AMOUNT of the single path.
ThresholdOf(x) ==
    IF x.kind = "batch" THEN x.arg.min_amount ELSE MIN_PAYOUT_AMOUNT

\* C34: every payout has amount_cents > 0, and every payout a generation
\* creates is at least the threshold in force (min_amount on the batch path,
\* 10000 on the single path); a new refund or charge is accepted whatever
\* balance it leaves, 0 or below included; and a (restaurant, currency) whose
\* available balance is 0 or below receives no payout from any generation.
C34_PositiveAboveThreshold ==
    /\ \A id \in DOMAIN payouts : payouts[id].amount_cents > 0
    /\ \A start \in GeneratorRuns :
          LET run == RunToEnd(DB, start)
          IN  \A id \in DOMAIN run.w.payouts :
                  LET p == run.w.payouts[id]
                  IN  /\ p.amount_cents > 0
                      /\ p.amount_cents >= ThresholdOf(start)
                      /\ get_available_balance(DB, p.restaurant_id, p.currency, now) > 0
    /\ \A b \in Charges \cup Refunds :
          ~Stored(DB, b.event_id) =>
              LET run == Served(b)
                  D1 == Commit(DB, run)
              IN  /\ run.pc = "commit" /\ run.is_new
                  /\ StatusCode(run) = HTTP_201_CREATED
                  /\ Stored(D1, b.event_id)
                  /\ get_available_balance(D1, b.restaurant_id, b.currency, now)
                        = get_available_balance(DB, b.restaurant_id, b.currency, now)
                          + SumAmounts(run.w.ledger,
                              {e \in BagToSet(run.w.ledger) :
                                  IsMatured(e, now)})

\* A refund was accepted that left its account below 0, a payout exists in
\* that account's currency, and a further generation can still be served.
C34_Witness ==
    /\ \E e \in BagToSet(ledger) :
          /\ e.entry_type = "refund"
          /\ get_available_balance(DB, e.restaurant_id, e.currency, now) < 0
          /\ \E id \in DOMAIN payouts : payouts[id].currency = e.currency
    /\ payout_seq < MaxPayoutId

\* The payouts of the pair that are neither paid nor failed.
NonTerminalOf(restaurant_id, currency) ==
    {id \in DOMAIN payouts :
        /\ OfAccount(payouts[id], restaurant_id, currency)
        /\ payouts[id].status \in {"created", "processing"}}

\* C35, as stated: in every committed state, however batch runs, single
\* generations and events interleave, each (restaurant, currency) has at most
\* one payout with status created or processing.
C35_OneNonTerminalPayout ==
    \A a \in AllAccounts : Cardinality(NonTerminalOf(a[1], a[2])) <= 1

\* The payout items of a payout.
AllItemsOf(payout_id) == {i \in BagToSet(items) : i.payout_id = payout_id}

\* C36, as stated: the amounts of the items of every payout sum to the
\* payout's amount_cents, for the first payout of a (restaurant, currency)
\* and for every later one.
C36_ItemsSumToAmount ==
    \A id \in DOMAIN payouts :
        SumAmounts(items, AllItemsOf(id)) = payouts[id].amount_cents

\* C37, as stated: a paid_at once set never changes: a payout_paid event with
\* a new event_id that names a payout already paid is stored as a new event
\* and leaves the payout's status and paid_at as they were.
C37_PaidAtStays ==
    \A b \in PayoutPaids :
        (/\ ~Stored(DB, b.event_id)
         /\ b.payout_id # NULL
         /\ Val(b.payout_id) \in DOMAIN payouts
         /\ payouts[Val(b.payout_id)].paid_at # NULL)
        => LET run == Served(b)
               D1 == Commit(DB, run)
               id == Val(b.payout_id)
           IN  /\ run.pc = "commit" /\ run.is_new
               /\ Stored(D1, b.event_id)
               /\ D1.payouts[id].status = payouts[id].status
               /\ D1.payouts[id].paid_at = payouts[id].paid_at

\* C38, as stated: generate_payout for a (restaurant, currency) with no
\* created or processing payout and an available balance of 10000 or more
\* creates the payout, with as_of the current date, its items and its
\* reserving entry, and commits; and when it fails it fails with
\* PendingPayout or InsufficientBalance, whatever paid or failed payouts the
\* pair has for the current date.
C38_SingleAlwaysCreates ==
    \A payout_data \in PayoutCreate :
        LET run == RunToEnd(DB, generate_payout(payout_data, payout_seq, now))
            available == get_available_balance(DB, payout_data.restaurant_id,
                                               payout_data.currency, now)
        IN  payout_seq < MaxPayoutId =>
                /\ run.pc = "failed" =>
                      run.error \in {"PAYOUT_ALREADY_PENDING", "PAYOUT_INSUFFICIENT_BALANCE"}
                /\ (/\ ~has_pending_payouts(DB, payout_data.restaurant_id, payout_data.currency)
                    /\ available >= MIN_PAYOUT_AMOUNT)
                   => /\ run.pc = "commit"
                      /\ \E id \in DOMAIN run.w.payouts :
                            /\ run.w.payouts[id].as_of = now
                            /\ run.w.payouts[id].amount_cents = available
                            /\ \E i \in BagToSet(run.w.items) : i.payout_id = id
                            /\ \E e \in BagToSet(run.w.ledger) :
                                  e.related_payout_id = Some(id)

\* The entries of the account that are pending at one instant and available
\* at another.
MaturingBetween(a, from, to) ==
    {e \in BagToSet(ledger) :
        OfAccount(e, a[1], a[2]) /\ IsPending(e, from) /\ IsMatured(e, to)}

\* C39: with the tables as they are, one more day on the clock leaves the
\* total balance of every (restaurant, currency) as it was: what leaves the
\* pending balance is what joins the available balance, namely the entries
\* that matured meanwhile, and no entry that was available is pending again;
\* and an operation that inserts no ledger entry leaves every balance as it
\* was.
C39_ClockOnlyMatures ==
    /\ \A a \in AllAccounts, clock \in Clocks \ {MaxNow + 1} :
          LET before == get_balance(DB, a[1], a[2], clock)
              after == get_balance(DB, a[1], a[2], clock + 1)
              moved == SumAmounts(ledger, MaturingBetween(a, clock, clock + 1))
          IN  /\ after.total_cents = before.total_cents
              /\ after.available_cents = before.available_cents + moved
              /\ after.pending_cents = before.pending_cents - moved
              /\ moved >= 0
              /\ \A e \in BagToSet(ledger) :
                    IsMatured(e, clock) =>
                        IsMatured(e, clock + 1) /\ ~IsPending(e, clock + 1)
    /\ \A call \in UpdateStatusCalls :
          LET run == RunToEnd(DB, update_status_call(call, payout_seq, now))
          IN  run.w.ledger = NoWrites.ledger =>
                  AllBalances(Commit(DB, run)) = AllBalances(DB)
    /\ \A b \in PayoutPaids :
          LET run == Served(b)
          IN  run.w.ledger = NoWrites.ledger =>
                  AllBalances(Commit(DB, run)) = AllBalances(DB)

\* The clock has advanced to the maturity of a sale: with the clock a day back
\* the sale is pending, now it is available and the account's whole balance is.
C39_Witness ==
    /\ now = MaxNow
    /\ \E e \in SaleEntries :
          /\ e.amount_cents > 0
          /\ IsPending(e, now - 1) /\ IsMatured(e, now)
          /\ BalancesOf(DB, <<e.restaurant_id, e.currency>>).pending_cents = 0
          /\ BalancesOf(DB, <<e.restaurant_id, e.currency>>).available_cents
                = SumAmounts(ledger, {r \in BagToSet(ledger) :
                                         OfAccount(r, e.restaurant_id, e.currency)})

\* C40, as stated: a payout_paid event changes only a payout of its own
\* restaurant_id and currency: a new event that names a payout of another
\* restaurant or currency leaves that payout's status and paid_at as they
\* were.
C40_OwnPayoutOnly ==
    \A b \in PayoutPaids :
        (/\ ~Stored(DB, b.event_id)
         /\ b.payout_id # NULL
         /\ Val(b.payout_id) \in DOMAIN payouts
         /\ ~OfAccount(payouts[Val(b.payout_id)], b.restaurant_id, b.currency))
        => LET D1 == Commit(DB, Served(b))
               id == Val(b.payout_id)
           IN  /\ D1.payouts[id].status = payouts[id].status
               /\ D1.payouts[id].paid_at = payouts[id].paid_at

====
